---- MODULE Spec2Model ----
(***************************************************************************)
(* A model of Exim's generic lookup interface, src/search.c: the cache of  *)
(* open lookups (search_tree), the LRU chain of lookups that use real      *)
(* files (open_top, open_bot, open_filecount), the per-handle item cache,  *)
(* and the functions search_open, search_find, internal_search_find and    *)
(* search_tidyup.                                                          *)
(*                                                                         *)
(* Pointers are slot numbers: a tree_node / search_cache pair is an index  *)
(* into the sequence search_tree, a backend handle is the serial number    *)
(* (since the last tidy) of the open-hook call that returned it, and 0 is  *)
(* the null pointer.                                                       *)
(* Strings are sequences of one-character strings.  The driver hooks are   *)
(* the environment: what they return is drawn with \E in the actions.     *)
(***************************************************************************)
EXTENDS Integers, Sequences, FiniteSets, TLC

\* ------------------------------------------------------------------ bounds
\* Configured cap on the number of open files (the option lookup_open_max).
lookup_open_max == 1
\* The open hooks are called at most this many times between two tidy-ups.
MaxOpens == 3
\* time(NULL) runs from 0 to MaxTime.
MaxTime == 2

\* ------------------------------------------------------- program constants
NULL == 0
\* do_cache starts as UINT_MAX, "cache for ever".  TLC's integers are 32-bit
\* signed, so the model's unsigned int is 31 bits wide; no sum in search.c
\* comes near either limit (line 657 adds do_cache only when it is not UINT_MAX).
UINT_MAX == 2147483647
KeyFileMax == 254
ZeroChar == 48

\* ---------------------------------------------------------------- strings
Str(s) == [null |-> FALSE, s |-> s, tainted |-> FALSE]
NullStr == [null |-> TRUE, s |-> <<>>, tainted |-> FALSE]
Tainted(x) == [x EXCEPT !.tainted = TRUE]
\* (mutant) nothing counts as tainted
is_tainted_never(x) == FALSE
is_tainted(x) == x.tainted

\* ---------------------------------------------------------------- drivers
\* The registry lookup_list, indexed from 0 and sorted by name.  Only the
\* fields search.c reads are kept: name, type, and which hooks are present.
lookup_list == [i \in 0..4 |->
  CASE i = 0 -> [name |-> <<"d","b","m">>, type |-> "absfile", find |-> TRUE,
                 check |-> TRUE, close |-> TRUE, tidy |-> FALSE, quote |-> FALSE]
    [] i = 1 -> [name |-> <<"l","s","e","a","r","c","h">>, type |-> "absfile", find |-> TRUE,
                 check |-> TRUE, close |-> TRUE, tidy |-> FALSE, quote |-> FALSE]
    [] i = 2 -> [name |-> <<"n","i","s">>, type |-> "single", find |-> TRUE,
                 check |-> FALSE, close |-> FALSE, tidy |-> FALSE, quote |-> FALSE]
    [] i = 3 -> [name |-> <<"n","i","s","p","l","u","s">>, type |-> "querystyle", find |-> TRUE,
                 check |-> FALSE, close |-> FALSE, tidy |-> TRUE, quote |-> TRUE]
    \* a driver that is known by name but not in the binary
    [] i = 4 -> [name |-> <<"p","g","s","q","l">>, type |-> "querystyle", find |-> FALSE,
                 check |-> FALSE, close |-> FALSE, tidy |-> FALSE, quote |-> FALSE]]
lookup_list_count == 5

\* ------------------------------------------------------ lookup type names
\* The character codes of the characters that occur in lookup type names.
Ascii ==
  ("*" :> 42) @@
  [a |-> 97, b |-> 98, c |-> 99, d |-> 100, e |-> 101, g |-> 103, h |-> 104,
   i |-> 105, l |-> 108, m |-> 109, n |-> 110, p |-> 112, q |-> 113, r |-> 114,
   s |-> 115, u |-> 117]

\* The byte at position i of a zero-terminated string.
CharAt(s, i) == IF i <= Len(s) THEN Ascii[s[i]] ELSE 0

\* Ustrncmp(s, t, n): the difference of the first bytes that differ among the
\* first n, or 0 if there is none before n bytes or the end of both strings.
Ustrncmp(s, t, n) ==
  LET diff == {i \in 1..n : /\ CharAt(s, i) # CharAt(t, i)
                            /\ \A j \in 1..(i-1) : CharAt(s, j) # 0}
  IN IF diff = {} THEN 0
     ELSE LET i == CHOOSE k \in diff : \A j \in diff : k <= j
          IN CharAt(s, i) - CharAt(t, i)

\* (mutant) a name that matches the start of a type name is taken for it
IsTypeAnyLength(name, len, mid) == Ustrncmp(name, lookup_list[mid].name, len) = 0

\* Line 80: the name matches the type name, and the lengths are the same.
IsType(name, len, mid) ==
  /\ Ustrncmp(name, lookup_list[mid].name, len) = 0
  /\ Len(lookup_list[mid].name) = len

\* Lines 66-96: the binary chop from bot to top; the result is the value
\* returned and the message put in search_error_message, if any.
RECURSIVE search_findtype_chop(_, _, _, _)
search_findtype_chop(name, len, bot, top) ==
  IF top > bot
  THEN LET mid == (top + bot) \div 2
           c   == Ustrncmp(name, lookup_list[mid].name, len)
       IN IF IsType(name, len, mid)
          THEN IF lookup_list[mid].find
               THEN [ret |-> mid, msg |-> ""]
               ELSE [ret |-> -1, msg |-> "lookup type is not available"]
          ELSE IF c > 0 THEN search_findtype_chop(name, len, mid + 1, top)
               ELSE search_findtype_chop(name, len, bot, mid)
  ELSE [ret |-> -1, msg |-> "unknown lookup type"]

\* ------------------------------------------------------------------ state
VARIABLES
  search_tree,           \* the slots: <<[name, handle, search_type, up, down, item_cache]>>
                         \*   (and, as history, opens: the backend handles the slot has held)
  open_top,              \* most recently used slot of the LRU chain, or NULL
  open_bot,              \* least recently used slot of the LRU chain, or NULL
  open_filecount,        \* count of open lookups that use real files
  search_error_message,  \* the error-message slot
  search_find_defer,     \* the defer flag
  now,                   \* time(NULL)
  fs,                    \* the search_find call in progress (its locals), or idle
  nopen,                 \* history: calls of the open hooks since the last tidy
  closes,                \* history: backend handle returned since the last tidy ->
                         \*   [type: its driver, by: who called the close hook on it]
  returned,              \* history: <<type, filename, slot>> of opens since the last tidy
  lastop                 \* history: the last completed call, its result and hook calls

vars == <<search_tree, open_top, open_bot, open_filecount, search_error_message,
          search_find_defer, now, fs, nopen, closes, returned, lastop>>

Idle == [active |-> FALSE]

NoOp == [op |-> "none", type |-> NULL, filename |-> NullStr, h |-> NULL, ret |-> NULL,
         yield |-> NullStr, hooks |-> <<>>, attempts |-> <<>>, closes |-> <<>>,
         args |-> <<>>, expand |-> <<>>]

Init ==
  /\ search_tree = <<>>
  /\ open_top = NULL
  /\ open_bot = NULL
  /\ open_filecount = 0
  /\ search_error_message = "unset"
  /\ search_find_defer = FALSE
  /\ now = 0
  /\ fs = Idle
  /\ nopen = 0
  /\ closes = [h \in {} |-> <<>>]
  /\ returned = {}
  /\ lastop = NoOp

\* ------------------------------------------------------------ search_open
\* sprintf(keybuffer, "%c%.254s", search_type + '0', filename ? filename : "")
Truncate(s) == SubSeq(s, 1, IF Len(s) < KeyFileMax THEN Len(s) ELSE KeyFileMax)

keybuffer(search_type, filename) ==
  <<(search_type + ZeroChar) % 256>> \o
    (IF filename.null THEN <<>> ELSE Truncate(filename.s))

\* tree_search(search_tree, name): the slot of that name, or NULL
tree_search(tree, name) ==
  IF \E i \in DOMAIN tree : tree[i].name = name
  THEN CHOOSE i \in DOMAIN tree : tree[i].name = name
  ELSE NULL

Hook(hook, type, h) == [hook |-> hook, type |-> type, h |-> h]

\* Record one close-hook call on backend handle h, made by who (a call with
\* NULL is only visible in the hook log).
Closed(cl, h, who) == IF h = NULL THEN cl ELSE [cl EXCEPT ![h].by = Append(@, who)]

\* Record that the open hook of driver search_type returned backend handle h.
Opened(cl, h, search_type) ==
  [x \in DOMAIN cl \cup {h} |->
     IF x = h THEN [type |-> search_type, by |-> <<>>] ELSE cl[x]]

\* The close-hook call of an eviction, if there was one.
EvictClosed(cl, hooks) == IF hooks = <<>> THEN cl ELSE Closed(cl, hooks[1].h, "evict")

\* Lines 434-450: the file limit is reached; close the least recently used.
NeedsEviction(lk, count) == lk.type = "absfile" /\ count >= lookup_open_max

\* (mutant) the evicted slot is not marked closed
EvictTailKeepsHandle(tree, top, bot, count) ==
  LET c    == tree[bot]
      bot1 == c.up
      t1   == IF bot1 # NULL THEN [tree EXCEPT ![bot1].down = NULL] ELSE tree
  IN [tree  |-> t1,
      top   |-> IF bot1 # NULL THEN top ELSE NULL,
      bot   |-> bot1,
      count |-> count - 1,
      hooks |-> <<Hook("close", c.search_type, c.handle)>>]

EvictTail(tree, top, bot, count) ==
  LET c    == tree[bot]
      bot1 == c.up
      t1   == IF bot1 # NULL THEN [tree EXCEPT ![bot1].down = NULL] ELSE tree
  IN [tree  |-> [t1 EXCEPT ![bot].handle = NULL],
      top   |-> IF bot1 # NULL THEN top ELSE NULL,
      bot   |-> bot1,
      count |-> count - 1,
      hooks |-> <<Hook("close", c.search_type, c.handle)>>]

Evict(lk, tree, top, bot, count) ==
  IF NeedsEviction(lk, count) /\ bot # NULL
  THEN EvictTail(tree, top, bot, count)
  ELSE [tree |-> tree, top |-> top, bot |-> bot, count |-> count, hooks |-> <<>>]

\* Lines 478-490: re-use the slot found in the tree, otherwise insert a new one.
\* (mutant) a new slot is inserted even when the tree holds one of that name
EnterSlotAlwaysNew(tree, t, name, handle, search_type) ==
  [tree |-> Append(tree, [name |-> name, handle |-> handle,
                          search_type |-> search_type, up |-> NULL, down |-> NULL,
                          item_cache |-> <<>>, opens |-> 1]),
   t |-> Len(tree) + 1]

\* (mutant) re-using a slot forgets its cached lookup data
EnterSlotClearsCache(tree, t, name, handle, search_type) ==
  IF t = NULL
  THEN [tree |-> Append(tree, [name |-> name, handle |-> handle,
                               search_type |-> search_type, up |-> NULL, down |-> NULL,
                               item_cache |-> <<>>, opens |-> 1]),
        t |-> Len(tree) + 1]
  ELSE [tree |-> [tree EXCEPT ![t].handle = handle, ![t].search_type = search_type,
                              ![t].up = NULL, ![t].down = NULL, ![t].opens = @ + 1,
                              ![t].item_cache = <<>>],
        t |-> t]

\* The result: the slots, and the slot search_open returns.
EnterSlot(tree, t, name, handle, search_type) ==
  IF t = NULL
  THEN [tree |-> Append(tree, [name |-> name, handle |-> handle,
                               search_type |-> search_type, up |-> NULL, down |-> NULL,
                               item_cache |-> <<>>, opens |-> 1]),
        t |-> Len(tree) + 1]
  ELSE [tree |-> [tree EXCEPT ![t].handle = handle, ![t].search_type = search_type,
                              ![t].up = NULL, ![t].down = NULL, ![t].opens = @ + 1],
        t |-> t]

OpenRecord(search_type, filename, ret, hooks) ==
  [NoOp EXCEPT !.op = "open", !.type = search_type, !.filename = filename,
               !.ret = ret, !.hooks = hooks]

\* (mutant) the file is counted before the check hook is called
search_open_counts_before_check(filename, search_type, open_ok, check_ok) ==
  LET lk   == lookup_list[search_type]
      name == keybuffer(search_type, filename)
      t    == tree_search(search_tree, name)
      ev   == Evict(lk, search_tree, open_top, open_bot, open_filecount)
      handle == nopen + 1
      new  == EnterSlot(ev.tree, t, name, handle, search_type)
  IN
  /\ ~fs.active
  /\ UNCHANGED <<now, fs, search_find_defer>>
  /\ IF ~filename.null /\ is_tainted(filename)
     THEN \* lines 394-399
          /\ lastop' = OpenRecord(search_type, filename, NULL, <<>>)
          /\ UNCHANGED <<search_tree, open_top, open_bot, open_filecount,
                         search_error_message, nopen, closes, returned>>
     ELSE IF t # NULL /\ search_tree[t].handle # NULL
     THEN \* lines 417-424: cached open
          /\ lastop' = OpenRecord(search_type, filename, t, <<>>)
          /\ returned' = returned \cup {<<search_type, filename, t>>}
          /\ UNCHANGED <<search_tree, open_top, open_bot, open_filecount,
                         search_error_message, nopen, closes>>
     ELSE /\ nopen' = handle
          /\ open_top' = ev.top
          /\ open_bot' = ev.bot
          /\ IF ~open_ok
             THEN \* lines 455-459
                  /\ search_tree' = ev.tree
                  /\ open_filecount' = ev.count
                  /\ closes' = EvictClosed(closes, ev.hooks)
                  /\ search_error_message' = "open failed"
                  /\ lastop' = OpenRecord(search_type, filename, NULL,
                                 ev.hooks \o <<Hook("open", search_type, NULL)>>)
                  /\ UNCHANGED returned
             ELSE /\ IF lk.check /\ ~check_ok
                     THEN \* lines 461-468
                          /\ search_tree' = ev.tree
                          /\ open_filecount' =
                               IF lk.type = "absfile" THEN ev.count + 1 ELSE ev.count
                          /\ closes' = Closed(Opened(EvictClosed(closes, ev.hooks),
                                                     handle, search_type),
                                              handle, "check")
                          /\ search_error_message' = "check failed"
                          /\ lastop' = OpenRecord(search_type, filename, NULL,
                                 ev.hooks \o <<Hook("open", search_type, handle),
                                               Hook("check", search_type, handle),
                                               Hook("close", search_type, handle)>>)
                          /\ UNCHANGED returned
                     ELSE \* lines 472-493
                          /\ search_tree' = new.tree
                          /\ open_filecount' =
                               IF lk.type = "absfile" THEN ev.count + 1 ELSE ev.count
                          /\ closes' = Opened(EvictClosed(closes, ev.hooks), handle,
                                              search_type)
                          /\ lastop' = OpenRecord(search_type, filename, new.t,
                                 ev.hooks \o <<Hook("open", search_type, handle)>> \o
                                 (IF lk.check THEN <<Hook("check", search_type, handle)>>
                                  ELSE <<>>))
                          /\ returned' = returned \cup {<<search_type, filename, new.t>>}
                          /\ UNCHANGED search_error_message

\* search_open(filename, search_type, ...); open_ok and check_ok are what the
\* driver's open and check hooks answer.
search_open(filename, search_type, open_ok, check_ok) ==
  LET lk   == lookup_list[search_type]
      name == keybuffer(search_type, filename)
      t    == tree_search(search_tree, name)
      ev   == Evict(lk, search_tree, open_top, open_bot, open_filecount)
      handle == nopen + 1
      new  == EnterSlot(ev.tree, t, name, handle, search_type)
  IN
  /\ ~fs.active
  /\ UNCHANGED <<now, fs, search_find_defer>>
  /\ IF ~filename.null /\ is_tainted(filename)
     THEN \* lines 394-399
          /\ lastop' = OpenRecord(search_type, filename, NULL, <<>>)
          /\ UNCHANGED <<search_tree, open_top, open_bot, open_filecount,
                         search_error_message, nopen, closes, returned>>
     ELSE IF t # NULL /\ search_tree[t].handle # NULL
     THEN \* lines 417-424: cached open
          /\ lastop' = OpenRecord(search_type, filename, t, <<>>)
          /\ returned' = returned \cup {<<search_type, filename, t>>}
          /\ UNCHANGED <<search_tree, open_top, open_bot, open_filecount,
                         search_error_message, nopen, closes>>
     ELSE /\ nopen' = handle
          /\ open_top' = ev.top
          /\ open_bot' = ev.bot
          /\ IF ~open_ok
             THEN \* lines 455-459
                  /\ search_tree' = ev.tree
                  /\ open_filecount' = ev.count
                  /\ closes' = EvictClosed(closes, ev.hooks)
                  /\ search_error_message' = "open failed"
                  /\ lastop' = OpenRecord(search_type, filename, NULL,
                                 ev.hooks \o <<Hook("open", search_type, NULL)>>)
                  /\ UNCHANGED returned
             ELSE /\ IF lk.check /\ ~check_ok
                     THEN \* lines 461-468
                          /\ search_tree' = ev.tree
                          /\ open_filecount' = ev.count
                          /\ closes' = Closed(Opened(EvictClosed(closes, ev.hooks),
                                                     handle, search_type),
                                              handle, "check")
                          /\ search_error_message' = "check failed"
                          /\ lastop' = OpenRecord(search_type, filename, NULL,
                                 ev.hooks \o <<Hook("open", search_type, handle),
                                               Hook("check", search_type, handle),
                                               Hook("close", search_type, handle)>>)
                          /\ UNCHANGED returned
                     ELSE \* lines 472-493
                          /\ search_tree' = new.tree
                          /\ open_filecount' =
                               IF lk.type = "absfile" THEN ev.count + 1 ELSE ev.count
                          /\ closes' = Opened(EvictClosed(closes, ev.hooks), handle,
                                              search_type)
                          /\ lastop' = OpenRecord(search_type, filename, new.t,
                                 ev.hooks \o <<Hook("open", search_type, handle)>> \o
                                 (IF lk.check THEN <<Hook("check", search_type, handle)>>
                                  ELSE <<>>))
                          /\ returned' = returned \cup {<<search_type, filename, new.t>>}
                          /\ UNCHANGED search_error_message

\* ---------------------------------------------------------- search_tidyup
\* tidyup_subtree: close every live handle whose driver has a close hook.
TidyCloses(tree) ==
  {i \in DOMAIN tree : tree[i].handle # NULL /\ lookup_list[tree[i].search_type].close}

\* (mutant) the tidy entry of every driver is called, present or not
TidyHooksOfAll == [j \in 1..lookup_list_count |-> Hook("tidy", j - 1, NULL)]

\* Lines 325-326: the tidy hook of every driver that has one, in registry order.
TidyHooks ==
  LET ids == SelectSeq([i \in 1..lookup_list_count |-> i - 1],
                       LAMBDA i : lookup_list[i].tidy)
  IN [j \in 1..Len(ids) |-> Hook("tidy", ids[j], NULL)]

\* The history of backend handles starts afresh: the record of this call keeps
\* the close-hook calls made on each handle opened since the last tidy, and
\* the tidy-hook calls.
search_tidyup ==
  /\ ~fs.active
  /\ search_tree' = <<>>
  /\ open_top' = NULL
  /\ open_bot' = NULL
  /\ open_filecount' = 0
  /\ nopen' = 0
  /\ closes' = [h \in {} |-> <<>>]
  /\ returned' = {}
  /\ lastop' = [NoOp EXCEPT !.op = "tidy", !.hooks = TidyHooks,
                 !.closes = [h \in DOMAIN closes |->
                    [closes[h] EXCEPT !.by = @ \o
                       [i \in 1..Cardinality({j \in TidyCloses(search_tree) :
                                                search_tree[j].handle = h}) |-> "tidy"]]]]
  /\ UNCHANGED <<search_error_message, search_find_defer, now, fs>>

\* -------------------------------------------------------- search_findtype
\* search_findtype(name, len): name points to a buffer that holds at least
\* len characters.
search_findtype(name, len) ==
  LET r == search_findtype_chop(name, len, 0, lookup_list_count)
  IN /\ ~fs.active
     /\ search_error_message' = IF r.ret < 0 THEN r.msg ELSE search_error_message
     /\ lastop' = [NoOp EXCEPT !.op = "findtype", !.ret = r.ret,
                               !.args = [name |-> name, len |-> len]]
     /\ UNCHANGED <<search_tree, open_top, open_bot, open_filecount,
                    search_find_defer, now, fs, nopen, closes, returned>>

\* ------------------------------------------------------------------ time
Tick ==
  /\ ~fs.active
  /\ now < MaxTime
  /\ now' = now + 1
  /\ UNCHANGED <<search_tree, open_top, open_bot, open_filecount, search_error_message,
                 search_find_defer, fs, nopen, closes, returned, lastop>>

\* --------------------------------------------------- internal_search_find
\* The per-query options: NULL, or the comma-separated list of its elements.
NullOpts == [null |-> TRUE, list |-> <<>>]
Opts(l) == [null |-> FALSE, list |-> l]

\* (mutant) the options the entry was stored with are not compared
CacheHitAnyOpts(item_cache, keystring, opts, cache_rd, tnow) ==
  /\ keystring \in DOMAIN item_cache
  /\ LET e == item_cache[keystring] IN (e.expiry = 0 \/ e.expiry > tnow)
  /\ cache_rd

\* Lines 556-560: the item-cache probe.
CacheHit(item_cache, keystring, opts, cache_rd, tnow) ==
  /\ keystring \in DOMAIN item_cache
  /\ LET e == item_cache[keystring] IN
       /\ (e.expiry = 0 \/ e.expiry > tnow)
       /\ \/ opts.null /\ e.opts.null
          \/ ~opts.null /\ ~e.opts.null /\ opts.list = e.opts.list
  /\ cache_rd

\* (mutant) the entry lives a second too long
ExpiryLate(do_cache, tnow) == IF do_cache = UINT_MAX THEN 0 ELSE tnow + do_cache + 1

\* Line 657: e->expiry = do_cache == UINT_MAX ? 0 : time(NULL)+do_cache
Expiry(do_cache, tnow) == IF do_cache = UINT_MAX THEN 0 ELSE tnow + do_cache

\* (mutant) a lookup that found nothing is not entered
CacheInstallSkipsNull(item_cache, keystring, do_cache, opts, data, tnow, handle) ==
  IF data.null THEN item_cache
  ELSE [k \in DOMAIN item_cache \cup {keystring} |->
          IF k = keystring
          THEN [expiry |-> Expiry(do_cache, tnow), opts |-> opts, data |-> data,
                at |-> tnow, ttl |-> do_cache, h |-> handle]
          ELSE item_cache[k]]

\* Lines 645-659: create or replace the entry for keystring.
CacheInstall(item_cache, keystring, do_cache, opts, data, tnow, handle) ==
  [k \in DOMAIN item_cache \cup {keystring} |->
     IF k = keystring
     THEN [expiry |-> Expiry(do_cache, tnow), opts |-> opts, data |-> data,
           \* history: when it was installed, with what TTL, from which backend handle
           at |-> tnow, ttl |-> do_cache, h |-> handle]
     ELSE item_cache[k]]

\* (mutant) a zero TTL forgets only the entry of the key looked up
CacheAfterFindDropsKey(item_cache, keystring, do_cache, opts, data, tnow, handle) ==
  IF do_cache # 0
  THEN CacheInstall(item_cache, keystring, do_cache, opts, data, tnow, handle)
  ELSE [k \in DOMAIN item_cache \ {keystring} |-> item_cache[k]]

\* Lines 641-669: what the item cache becomes after the find hook answered
\* OK or FAIL.
CacheAfterFind(item_cache, keystring, do_cache, opts, data, tnow, handle) ==
  IF do_cache # 0
  THEN CacheInstall(item_cache, keystring, do_cache, opts, data, tnow, handle)
  ELSE <<>>

\* (mutant) a DEFER is cached, or empties the cache, as a FAIL does
internal_search_find_defer_is_fail(c, filename, keystring, cache_rd, opts, tnow, resp) ==
  LET search_type == Head(c.name) - ZeroChar IN
  IF keystring = <<>>
  THEN [data |-> NullStr, defer |-> FALSE, item_cache |-> c.item_cache, hooks |-> <<>>]
  ELSE IF CacheHit(c.item_cache, keystring, opts, cache_rd, tnow)
  THEN [data |-> c.item_cache[keystring].data, defer |-> FALSE,
        item_cache |-> c.item_cache, hooks |-> <<>>]
  ELSE [data |-> resp.data, defer |-> resp.rc = "DEFER",
        item_cache |-> CacheAfterFind(c.item_cache, keystring, resp.do_cache,
                                      opts, resp.data, tnow, c.handle),
        hooks |-> <<Hook("find", search_type, c.handle)>>]

\* internal_search_find(handle, filename, keystring, cache_rd, opts) on slot
\* record c at time tnow; resp = [rc, data, do_cache] is what the driver's
\* find hook answers if it is called.  The result: the yield, the defer flag,
\* the slot's item cache afterwards and the find-hook calls made.
internal_search_find(c, filename, keystring, cache_rd, opts, tnow, resp) ==
  LET search_type == Head(c.name) - ZeroChar IN
  IF keystring = <<>>
  THEN [data |-> NullStr, defer |-> FALSE, item_cache |-> c.item_cache, hooks |-> <<>>]
  ELSE IF CacheHit(c.item_cache, keystring, opts, cache_rd, tnow)
  THEN [data |-> c.item_cache[keystring].data, defer |-> FALSE,
        item_cache |-> c.item_cache, hooks |-> <<>>]
  ELSE IF resp.rc = "DEFER"
  THEN [data |-> resp.data, defer |-> TRUE, item_cache |-> c.item_cache,
        hooks |-> <<Hook("find", search_type, c.handle)>>]
  ELSE [data |-> resp.data, defer |-> FALSE,
        item_cache |-> CacheAfterFind(c.item_cache, keystring, resp.do_cache,
                                      opts, resp.data, tnow, c.handle),
        hooks |-> <<Hook("find", search_type, c.handle)>>]

\* ------------------------------------------------------------ search_find
\* Lines 741-752: drop the options search_find itself handles.
RECURSIVE DropGlobal(_)
DropGlobal(l) ==
  IF l = <<>> THEN <<>>
  ELSE IF Head(l) \in {"ret=key", "cache=no_rd"} THEN DropGlobal(Tail(l))
  ELSE <<Head(l)>> \o DropGlobal(Tail(l))

HasEle(opts, ele) == ~opts.null /\ \E i \in DOMAIN opts.list : opts.list[i] = ele

\* (mutant) the options search_find handles are passed on with the others
DriverOptsKeepsGlobal(opts) == opts

DriverOpts(opts) ==
  IF opts.null \/ DropGlobal(opts.list) = <<>> THEN NullOpts
  ELSE Opts(DropGlobal(opts.list))

\* Lines 757-784: put the slot at the top of the LRU chain.
Promote(tree, top, bot, t) ==
  IF top # t /\ lookup_list[Head(tree[t].name) - ZeroChar].type = "absfile"
  THEN LET up   == tree[t].up
           down == tree[t].down
           t1 == IF up # NULL THEN [tree EXCEPT ![up].down = down] ELSE tree
           t2 == IF up # NULL /\ down # NULL THEN [t1 EXCEPT ![down].up = up] ELSE t1
           b1 == IF up # NULL /\ down = NULL THEN up ELSE bot
           t3 == [t2 EXCEPT ![t].up = NULL, ![t].down = top]
           t4 == IF top # NULL THEN [t3 EXCEPT ![top].up = t] ELSE t3
       IN [tree |-> t4, top |-> t, bot |-> IF top = NULL THEN t ELSE b1]
  ELSE [tree |-> tree, top |-> top, bot |-> bot]

Dots(s) == Cardinality({i \in DOMAIN s : s[i] = "."})

\* The first position >= k of s that holds a '.', or Len(s)+1 (the NUL).
NextDot(s, k) ==
  IF \E i \in k..Len(s) : s[i] = "."
  THEN CHOOSE i \in k..Len(s) : s[i] = "." /\ \A j \in k..(i-1) : s[j] # "."
  ELSE Len(s) + 1

\* Ustrrchr(keystring, '@'): the last position holding '@', or NULL
LastAt(s) ==
  IF \E i \in DOMAIN s : s[i] = "@"
  THEN CHOOSE i \in DOMAIN s : s[i] = "@" /\ \A j \in (i+1)..Len(s) : s[j] # "@"
  ELSE NULL

\* Ustrncpy(buf + k - 1, affix, affixlen): overwrite buf from position k
Overwrite(buf, k, affix, affixlen) ==
  [i \in DOMAIN buf |-> IF i >= k /\ i < k + affixlen THEN affix[i - k + 1] ELSE buf[i]]

Attempt(kind, key) == [kind |-> kind, key |-> key]

\* expand_nstring[n] and expand_nlength[n]: a pointer into a string (the
\* characters from the pointer to the NUL) and a length.
Var(s, len, tainted) == [s |-> s, len |-> len, tainted |-> tainted]

\* "expand_setup && *expand_setup >= 0"; a NULL expand_setup is modelled as -1.
WantsExpand(f) == f.expand_setup >= 0

\* *expand_setup += 1; expand_nstring[*expand_setup] = ...; twice
SetExpand(f, v1, v2) ==
  IF WantsExpand(f)
  THEN [f EXCEPT !.expand_setup = @ + 2, !.expand = @ \o <<v1, v2>>]
  ELSE f

\* Lines 873-885: after a hit on a trimmed key, the wild part and a de-tainted
\* copy of the fixed part.
ExpandTrim(f) ==
  LET fixedlength == (Len(f.keystring2) - f.keystring3 + 1) - f.affixlen
      wildlength  == Len(f.keystring) - fixedlength - 1
      fixed       == IF fixedlength < 0 THEN 0 ELSE fixedlength
  IN SetExpand(f, Var(f.keystring, wildlength, f.key_tainted),
                  Var(SubSeq(f.keystring, wildlength + 2, wildlength + 1 + fixed),
                      fixed, FALSE))

\* (mutant) the wild part of a "*@" hit is the whole key
ExpandStarAtWholeKey(f) ==
  SetExpand(f, Var(f.keystring, Len(f.keystring), f.key_tainted),
               Var(f.keystring, 0, f.key_tainted))

\* Lines 913-921: after a hit on "*@...".
ExpandStarAt(f) ==
  SetExpand(f, Var(f.keystring, f.atat - 1 + 1, f.key_tainted),
               Var(f.keystring, 0, f.key_tainted))

\* Lines 933-941: after a hit on "*".
ExpandStar(f) ==
  SetExpand(f, Var(f.keystring, Len(f.keystring), f.key_tainted),
               Var(f.keystring, 0, f.key_tainted))

\* Lines 952-962: a match with no wild part: an empty wild part and a
\* de-tainted copy of the whole key.
ExpandNullWild(f) ==
  IF f.set_null_wild
  THEN SetExpand(f, Var(f.keystring, 0, f.key_tainted),
                    Var(f.keystring, Len(f.keystring), FALSE))
  ELSE f

\* Lines 952-971 and the return: the call is over.
Finish(f) == [ExpandNullWild(f) EXCEPT !.next = Attempt("return", <<>>)]

\* (mutant) the "*" default is looked up even after an earlier lookup matched
StarPhaseAfterMatch(f) ==
  IF f.starflags \cap {"STAR", "STARAT"} # {}
  THEN [f EXCEPT !.next = Attempt("star", <<"*">>)]
  ELSE Finish(f)

\* Lines 929-942: the "*" default.
StarPhase(f) ==
  IF f.yield.null /\ f.starflags \cap {"STAR", "STARAT"} # {}
  THEN [f EXCEPT !.next = Attempt("star", <<"*">>)]
  ELSE Finish(f)

\* Lines 899-923: the "*@" default; the character before the last '@' is
\* overwritten in the caller's key for the time of the lookup.
StarAtPhase(f) ==
  LET atat == LastAt(f.keystring) IN
  IF f.yield.null /\ "STARAT" \in f.starflags /\ atat # NULL /\ atat > 1
  THEN [f EXCEPT !.savechar = f.keystring[atat - 1],
                 !.keystring = [f.keystring EXCEPT ![atat - 1] = "*"],
                 !.atat = atat - 1,
                 !.next = Attempt("starat", <<"*">> \o SubSeq(f.keystring, atat,
                                                          Len(f.keystring)))]
  ELSE StarPhase(f)

\* Lines 840-861: one turn of the loop that chops off leading components.
TrimLoop(f) ==
  IF f.dotcount >= f.partial
  THEN LET k == NextDot(f.keystring2, f.keystring3)
           g == [f EXCEPT !.dotcount = @ - 1]
       IN IF k > Len(f.keystring2)
          THEN IF f.affixlen < 1 THEN StarAtPhase(g)
               ELSE LET n == IF f.affixlen > 1 /\ f.affix[f.affixlen] = "."
                             THEN f.affixlen - 1 ELSE f.affixlen
                    IN [g EXCEPT !.affixlen = n,
                                 !.keystring2 = SubSeq(f.affix, 1, n),
                                 !.keystring3 = 1,
                                 !.next = Attempt("trim", SubSeq(f.affix, 1, n))]
          ELSE LET k3  == k - (f.affixlen - 1)
                   buf == Overwrite(f.keystring2, k3, f.affix, f.affixlen)
               IN [g EXCEPT !.keystring2 = buf, !.keystring3 = k3,
                            !.next = Attempt("trim", SubSeq(buf, k3, Len(buf)))]
  ELSE StarAtPhase([f EXCEPT !.dotcount = @ - 1])

\* (mutant) the number of components is taken for the number of dots
TrimInitCountsComponents(f) ==
  TrimLoop([f EXCEPT !.keystring3 = f.affixlen + 1,
                     !.dotcount = Dots(SubSeq(f.keystring2, f.affixlen + 1,
                                              Len(f.keystring2))) + 1])

\* Lines 833-838: count the dots of the key and start chopping.
TrimInit(f) ==
  TrimLoop([f EXCEPT !.keystring3 = f.affixlen + 1,
                     !.dotcount = Dots(SubSeq(f.keystring2, f.affixlen + 1,
                                              Len(f.keystring2)))])

\* (mutant) the character overwritten for the "*@" lookup is not put back
RestoreKeyNever(f) == f.keystring

\* Line 910: *atat = savechar, right after the "*@" lookup returned.
RestoreKey(f) == [f.keystring EXCEPT ![f.atat] = f.savechar]

\* What search_find does between the return of one internal_search_find call
\* (of kind f.next.kind, with the given yield and defer flag) and the next
\* call or its own return.
AfterAttempt(f0, yield, defer) ==
  LET kind == f0.next.kind
      f == [f0 EXCEPT !.yield = yield,
                      !.keystring = IF kind = "starat" THEN RestoreKey(f0)
                                    ELSE f0.keystring]
  IN
  IF defer /\ kind # "star"
    THEN Finish([f EXCEPT !.yield = NullStr])
  ELSE IF kind = "verbatim"
    THEN IF ~yield.null
         THEN Finish([f EXCEPT !.set_null_wild = (f.partial >= 0)])
         ELSE IF f.partial >= 0
         THEN IF f.affixlen = 0
              THEN TrimInit([f EXCEPT !.keystring2 = f.keystring])
              ELSE LET k2 == SubSeq(f.affix, 1, f.affixlen) \o f.keystring
                   IN [f EXCEPT !.keystring2 = k2, !.next = Attempt("affix", k2)]
         ELSE StarAtPhase(f)
  ELSE IF kind = "affix"
    THEN IF yield.null THEN TrimInit(f)
         ELSE Finish([f EXCEPT !.set_null_wild = TRUE])
  ELSE IF kind = "trim"
    THEN IF ~yield.null THEN Finish(ExpandTrim(f))
         ELSE TrimLoop([f EXCEPT !.keystring3 = @ + f.affixlen])
  ELSE IF kind = "starat"
    THEN StarPhase(IF ~yield.null THEN ExpandStarAt(f) ELSE f)
  ELSE Finish(IF ~yield.null THEN ExpandStar(f) ELSE f)

\* (mutant) with ret=key the key is returned whether or not anything matched
YieldKeyAlways(f) == IF f.ret_key THEN Str(f.keystring) ELSE f.yield

\* The value search_find returns (lines 968-971).
Yield(f) == IF ~f.yield.null /\ f.ret_key THEN Str(f.keystring) ELSE f.yield

FindRecord(f) ==
  [NoOp EXCEPT !.op = "find", !.h = f.handle, !.yield = Yield(f), !.hooks = f.hooks,
               !.attempts = f.attempts,
               !.args = [partial |-> f.partial, affix |-> f.affix,
                         starflags |-> f.starflags, ret_key |-> f.ret_key,
                         keystring |-> f.keystring],
               !.expand = f.expand]

\* One internal_search_find call of the search_find call f on the slots tree,
\* and what search_find does with its result.
FindStep(f, tree, resp) ==
  LET c == tree[f.handle]
      r == internal_search_find(c, f.filename, f.next.key, f.cache_rd, f.opts,
                                now, resp)
      g == AfterAttempt(f, r.data, r.defer)
  IN [tree  |-> [tree EXCEPT ![f.handle].item_cache = r.item_cache],
      msg   |-> IF r.hooks = <<>> THEN "" ELSE resp.msg,
      defer |-> r.defer,
      f     |-> [g EXCEPT !.hooks = @ \o r.hooks,
                          !.attempts = Append(@, [kind |-> f.next.kind,
                                                  key |-> f.next.key,
                                                  data |-> r.data,
                                                  defer |-> r.defer,
                                                  called |-> r.hooks # <<>>,
                                                  cached |-> DOMAIN c.item_cache,
                                                  opts |-> f.opts,
                                                  cache_rd |-> f.cache_rd,
                                                  rc |-> resp.rc,
                                                  do_cache |-> resp.do_cache])]]

\* The state after the step st of a search_find call: the call goes on with
\* its next lookup, or it returns.
FindDone(st) ==
  /\ search_tree' = st.tree
  /\ search_error_message' = st.msg
  /\ search_find_defer' = st.defer
  /\ IF st.f.next.kind = "return"
     THEN fs' = Idle /\ lastop' = FindRecord(st.f)
     ELSE fs' = st.f /\ lastop' = [NoOp EXCEPT !.op = "finding"]
  /\ UNCHANGED <<open_filecount, now, nopen, closes, returned>>

\* search_find(handle, filename, keystring, partial, affix, affixlen,
\* starflags, expand_setup, opts), up to the return of its first lookup (the
\* key verbatim); resp is what the driver's find hook answers if called.  The
\* key is in tainted memory, as the callers' keys are.
search_find(handle, filename, keystring, partial, affix, starflags, expand_setup, opts, resp) ==
  LET p == Promote(search_tree, open_top, open_bot, handle)
      f == [active |-> TRUE, handle |-> handle, filename |-> filename,
            keystring |-> keystring, partial |-> partial, affix |-> affix,
            affixlen |-> Len(affix), starflags |-> starflags,
            opts |-> DriverOpts(opts), cache_rd |-> ~HasEle(opts, "cache=no_rd"),
            ret_key |-> HasEle(opts, "ret=key"), set_null_wild |-> FALSE,
            key_tainted |-> TRUE, expand_setup |-> expand_setup, expand |-> <<>>,
            yield |-> NullStr, keystring2 |-> <<>>, keystring3 |-> 0, dotcount |-> 0,
            savechar |-> "", atat |-> 0, next |-> Attempt("verbatim", keystring),
            attempts |-> <<>>, hooks |-> <<>>]
  IN
  /\ ~fs.active
  /\ handle \in DOMAIN search_tree
  /\ open_top' = p.top
  /\ open_bot' = p.bot
  /\ FindDone(FindStep(f, p.tree, resp))

\* The next lookup of the search_find call in progress.
search_find_next(resp) ==
  /\ fs.active
  /\ UNCHANGED <<open_top, open_bot>>
  /\ FindDone(FindStep(fs, search_tree, resp))

\* ------------------------------------------------------ the environment
\* What a find hook may answer: OK with a payload, FAIL or DEFER, and the
\* value it leaves in do_cache (0, a TTL in seconds, or UINT_MAX untouched).
Payload == [null |-> FALSE, s |-> <<"v">>, tainted |-> TRUE]
Response(rc, do_cache) ==
  [rc |-> rc, data |-> IF rc = "OK" THEN Payload ELSE NullStr, do_cache |-> do_cache,
   msg |-> IF rc = "DEFER" THEN "deferred" ELSE ""]

\* The files the callers look things up in: one more than may be open.  File
\* names matter to search.c only through the key they give, so the callers
\* take a name into use only after the names before it.
FileChars == <<"A", "B", "C", "D", "E">>
NumFiles == lookup_open_max + 1
File(i) == Str(<<"/", FileChars[i]>>)
lsearch == 1
nisplus == 3
InUse(i) == tree_search(search_tree, keybuffer(lsearch, File(i))) # NULL
Files == {File(i) : i \in {n \in 1..NumFiles : \A m \in 1..(n-1) : InUse(m)}}

\* search_open(search_type, filename) cannot answer from the cache of open
\* lookups: it has to call the driver's open hook.
MustOpen(search_type, filename) ==
  LET t == tree_search(search_tree, keybuffer(search_type, filename)) IN
  /\ ~(~filename.null /\ is_tainted(filename))
  /\ t = NULL \/ search_tree[t].handle = NULL

\* The callers let the open hooks be called at most max times between two
\* tidy-ups.
OpensLeft(search_type, filename, max) == MustOpen(search_type, filename) => nopen < max

\* --- Spec: the cache of open lookups and the LRU chain
Responses == {Response("OK", UINT_MAX)}

\* The open hook fails, or the check hook fails, or both succeed.
SearchOpen ==
  \/ \E f \in Files, ok \in {"yes", "open fails", "check fails"} :
       /\ OpensLeft(lsearch, f, MaxOpens)
       /\ search_open(f, lsearch, ok # "open fails", ok # "check fails")
  \/ search_open(Tainted(File(1)), lsearch, TRUE, TRUE)
  \/ \E open_ok \in BOOLEAN :
       /\ OpensLeft(nisplus, NullStr, MaxOpens)
       /\ search_open(NullStr, nisplus, open_ok, TRUE)

\* The callers use the handles search_open gave them since the last tidy, with
\* no options or asking for the item cache not to be read.
SearchFind ==
  \E r \in returned, resp \in Responses, opts \in {NullOpts, Opts(<<"cache=no_rd">>)} :
    search_find(r[3], r[2], <<"k">>, -1, <<>>, {}, -1, opts, resp)

SearchTidyup == search_tidyup

Next ==
  \/ SearchOpen
  \/ SearchFind
  \/ SearchTidyup

Spec == Init /\ [][Next]_vars

\* --- SpecCache: the item cache, with time passing.  One file and one
\* query-style lookup are open; finds use two keys, with no options, with a
\* driver option or without reading the cache; the find hook answers OK, FAIL
\* or DEFER and may set a TTL of 0 or 1 second.
CacheKeys == {<<"k">>, <<"j">>}
CacheOpts ==
  {NullOpts, Opts(<<"x">>), Opts(<<"ret=key", "x", "cache=no_rd">>)}
CacheResponses ==
  {Response("OK", UINT_MAX), Response("OK", 1), Response("OK", 0),
   Response("FAIL", 0), Response("DEFER", UINT_MAX)}

CacheOpen ==
  \/ search_open(File(1), lsearch, TRUE, TRUE)
  \/ search_open(NullStr, nisplus, TRUE, TRUE)

\* A lookup the item cache answers calls no find hook: the hook's answer is
\* then not drawn at all (the first one stands for it).
FromCache(t, key, opts) ==
  CacheHit(search_tree[t].item_cache, key, DriverOpts(opts), ~HasEle(opts, "cache=no_rd"), now)

CacheFind ==
  \/ \E r \in returned, key \in CacheKeys, opts \in CacheOpts, resp \in CacheResponses :
       /\ r[1] = lsearch
       /\ FromCache(r[3], key, opts) => resp = Response("OK", UINT_MAX)
       /\ search_find(r[3], r[2], key, -1, <<>>, {}, -1, opts, resp)
  \/ \E r \in returned, resp \in {Response("OK", UINT_MAX), Response("OK", 0)} :
       /\ r[1] = nisplus
       /\ search_find(r[3], r[2], <<"k">>, -1, <<>>, {}, -1, NullOpts, resp)

NextCache ==
  \/ CacheOpen
  \/ CacheFind
  \/ Tick
  \/ SearchTidyup

SpecCache == Init /\ [][NextCache]_vars

\* --- SpecWild: partial matching and the defaults.  One file is open; the
\* callers look up domains and addresses with the partial-match settings
\* below; the find hook answers OK, FAIL or DEFER, and either leaves the TTL
\* alone when it answers OK or sets it to 0.
WildArgs ==
  { [key |-> <<"a", ".", "b", ".", "c">>, partial |-> 2, affix |-> <<"*", ".">>,
     starflags |-> {}],
    [key |-> <<"a", ".", "b">>, partial |-> 0, affix |-> <<"*", ".">>,
     starflags |-> {"STAR"}],
    [key |-> <<"a", ".", "b">>, partial |-> 1, affix |-> <<"*">>,
     starflags |-> {}],
    [key |-> <<"u", "@", "d", ".", "e">>, partial |-> -1, affix |-> <<>>,
     starflags |-> {"STARAT"}],
    [key |-> <<"u", "@", "d", ".", "e">>, partial |-> 1, affix |-> <<>>,
     starflags |-> {"STAR", "STARAT"}],
    [key |-> <<"@", "d">>, partial |-> -1, affix |-> <<>>,
     starflags |-> {"STARAT"}] }

WildResponses ==
  {Response("OK", UINT_MAX), Response("OK", 0), Response("FAIL", 0),
   Response("DEFER", UINT_MAX)}

WildOpen == search_open(File(1), lsearch, TRUE, TRUE)

WildFind ==
  \E r \in returned, a \in WildArgs, resp \in WildResponses :
    search_find(r[3], r[2], a.key, a.partial, a.affix, a.starflags, -1, NullOpts,
                resp)

WildFindNext == \E resp \in WildResponses : search_find_next(resp)

NextWild ==
  \/ WildOpen
  \/ WildFind
  \/ WildFindNext

SpecWild == Init /\ [][NextWild]_vars

\* --- SpecPartial: every partial-match setting.  One file is open; the keys
\* have no, one or two dots, an '@' in the middle or in front, or are empty;
\* partial matching is off (-1) or asks for 0, 1 or 2 components; the find
\* hook answers OK, FAIL or DEFER and nothing is cached (TTL 0); the
\* expansion variables are wanted or not.
PartialKeys ==
  { <<>>, <<"a">>, <<"a", ".", "b">>, <<"a", ".", "b", ".", "c">>,
    <<"u", "@", "d", ".", "e">>, <<"@", "d">> }
PartialCounts == {-1, 0, 1, 2}
Affixes == { <<>>, <<"*">>, <<"*", ".">> }
PartialResponses == {Response("OK", 0), Response("FAIL", 0), Response("DEFER", UINT_MAX)}

PartialOpen == search_open(File(1), lsearch, TRUE, TRUE)

PartialFind ==
  \E r \in returned, key \in PartialKeys, partial \in PartialCounts, affix \in Affixes,
     starflags \in SUBSET {"STAR", "STARAT"}, expand_setup \in {-1, 0},
     resp \in PartialResponses :
    /\ partial = -1 => affix = <<>>
    /\ search_find(r[3], r[2], key, partial, affix, starflags, expand_setup, NullOpts,
                   resp)

PartialFindNext == \E resp \in PartialResponses : search_find_next(resp)

NextPartial ==
  \/ PartialOpen
  \/ PartialFind
  \/ PartialFindNext

SpecPartial == Init /\ [][NextPartial]_vars

\* --- SpecData: a driver whose data does not change.  One lsearch file is
\* open; what its find hook answers is fixed by the key: the file has the
\* entries below, and leaves every answer in the cache for one second.  The
\* callers ask for the key (ret=key) and then look up the key they got with
\* the same settings and without ret=key.  Each search_find call is one step.
FileData == { <<"a", ".", "b">>, <<"*", ".", "c">>, <<"*", "@", "d">> }
find(keystring) ==
  IF keystring \in FileData THEN Response("OK", 1) ELSE Response("FAIL", 1)

DataKeys == { <<"a", ".", "b">>, <<"b", ".", "c">>, <<"u", "@", "d">>, <<"x">> }
DataSettings ==
  { [partial |-> -1, affix |-> <<>>], [partial |-> 1, affix |-> <<"*", ".">>] }

\* search_find from its call to its return, with the find hook above
RECURSIVE FindRun(_, _)
FindRun(f, tree) ==
  LET st == FindStep(f, tree, find(f.next.key))
  IN IF st.f.next.kind = "return" THEN st ELSE FindRun(st.f, st.tree)

search_find_whole(handle, filename, keystring, partial, affix, starflags, opts) ==
  LET p == Promote(search_tree, open_top, open_bot, handle)
      f == [active |-> TRUE, handle |-> handle, filename |-> filename,
            keystring |-> keystring, partial |-> partial, affix |-> affix,
            affixlen |-> Len(affix), starflags |-> starflags,
            opts |-> DriverOpts(opts), cache_rd |-> ~HasEle(opts, "cache=no_rd"),
            ret_key |-> HasEle(opts, "ret=key"), set_null_wild |-> FALSE,
            key_tainted |-> TRUE, expand_setup |-> -1, expand |-> <<>>,
            yield |-> NullStr, keystring2 |-> <<>>, keystring3 |-> 0, dotcount |-> 0,
            savechar |-> "", atat |-> 0, next |-> Attempt("verbatim", keystring),
            attempts |-> <<>>, hooks |-> <<>>]
  IN
  /\ ~fs.active
  /\ handle \in DOMAIN search_tree
  /\ open_top' = p.top
  /\ open_bot' = p.bot
  /\ FindDone(FindRun(f, p.tree))

DataOpen == search_open(File(1), lsearch, TRUE, TRUE)

DataFindKey ==
  \E r \in returned, key \in DataKeys, a \in DataSettings,
     starflags \in SUBSET {"STAR", "STARAT"} :
    search_find_whole(r[3], r[2], key, a.partial, a.affix, starflags,
                      Opts(<<"ret=key">>))

DataFindAgain ==
  /\ lastop.op = "find" /\ lastop.args.ret_key /\ ~lastop.yield.null
  /\ \E r \in returned :
       /\ r[3] = lastop.h
       /\ search_find_whole(r[3], r[2], lastop.yield.s, lastop.args.partial,
                            lastop.args.affix, lastop.args.starflags, NullOpts)

NextData ==
  \/ DataOpen
  \/ DataFindKey
  \/ DataFindAgain

SpecData == Init /\ [][NextData]_vars

\* --- SpecType: lookup type names.  The callers pass a buffer and the length
\* of the name at its start: the type names themselves, alone or followed by
\* more characters, and every string of up to MaxNameLen of the characters
\* below.
MaxNameLen == 3
\* In SpecChain the open hooks are called at most this many times.
MaxChainOpens == 4
NameChars == {"n", "i", "s"}
RECURSIVE Strings(_)
Strings(n) ==
  IF n = 0 THEN {<<>>}
  ELSE Strings(n - 1) \cup {Append(x, ch) : x \in Strings(n - 1), ch \in NameChars}
TypeNames ==
  Strings(MaxNameLen)
    \cup {lookup_list[i].name : i \in 0..(lookup_list_count - 1)}
    \cup {lookup_list[i].name \o <<"*">> : i \in 0..(lookup_list_count - 1)}
    \cup {lookup_list[i].name \o <<"s">> : i \in 0..(lookup_list_count - 1)}

TypeFind == \E name \in TypeNames : \E len \in 0..Len(name) : search_findtype(name, len)

NextType == TypeFind

SpecType == Init /\ [][NextType]_vars

\* --- SpecLong: file names around the 254 bytes the key of a slot keeps.
\* The names share their first 254 bytes; one is 254 bytes long, two are 255
\* bytes long and differ in the last byte only.  They are opened with two
\* drivers that use real files, and looked up.
dbm == 0
LongPad == [i \in 1..(KeyFileMax - 1) |-> IF i = 1 THEN "/" ELSE "x"]
LongFiles ==
  {Str(LongPad \o tail) : tail \in {<<"y">>, <<"y", "a">>, <<"y", "b">>}}
LongOpen ==
  \E f \in LongFiles, search_type \in {dbm, lsearch} :
    /\ OpensLeft(search_type, f, MaxOpens)
    /\ search_open(f, search_type, TRUE, TRUE)
LongFind ==
  \E r \in returned :
    search_find(r[3], r[2], <<"k">>, -1, <<>>, {}, -1, NullOpts, Response("OK", 0))
NextLong == LongOpen \/ LongFind
SpecLong == Init /\ [][NextLong]_vars

\* --- SpecChain: the LRU chain under handles that outlive their backends.
\* Files are opened (the open hook succeeding or failing) and looked up through
\* any handle search_open returned since the last tidy-up, evicted or not.
NumChainFiles == lookup_open_max + 2
ChainFiles == {File(i) : i \in {n \in 1..NumChainFiles : \A m \in 1..(n-1) : InUse(m)}}
ChainOpen ==
  \E f \in ChainFiles, open_ok \in BOOLEAN :
    /\ OpensLeft(lsearch, f, MaxChainOpens)
    /\ search_open(f, lsearch, open_ok, TRUE)
ChainFind ==
  \E r \in returned :
    search_find(r[3], r[2], <<"k">>, -1, <<>>, {}, -1, NullOpts, Response("OK", 0))
NextChain == ChainOpen \/ ChainFind
SpecChain == Init /\ [][NextChain]_vars

\* --- SpecNeg: lookups that find nothing.  One lsearch file is open; the find
\* hook answers FAIL and leaves the TTL alone, sets it to one second or sets
\* it to zero, or answers OK; time passes.
NegKeys == {<<"k">>, <<"j">>}
NegResponses ==
  {Response("FAIL", UINT_MAX), Response("FAIL", 1), Response("FAIL", 0),
   Response("OK", UINT_MAX), Response("DEFER", UINT_MAX), Response("DEFER", 0)}

NegOpen == search_open(File(1), lsearch, TRUE, TRUE)

NegFind ==
  \E r \in returned, key \in NegKeys, resp \in NegResponses :
    search_find(r[3], r[2], key, -1, <<>>, {}, -1, NullOpts, resp)

NextNeg ==
  \/ NegOpen
  \/ NegFind
  \/ Tick

SpecNeg == Init /\ [][NextNeg]_vars

\* ================================================================ claims
\* Steps of the three entry points, told apart by the record of the last call.
OpenStep == lastop'.op = "open" /\ ~fs.active /\ ~fs'.active /\ now' = now
\* a search_find call that makes one lookup and returns
FindStepOne ==
  /\ lastop'.op = "find" /\ ~fs.active /\ ~fs'.active /\ now' = now
  /\ Len(lastop'.attempts) = 1

HookCalls(hooks, hook) == {i \in DOMAIN hooks : hooks[i].hook = hook}

\* C1: for every sequence of search_open / search_find / search_tidyup calls,
\* open_filecount never exceeds lookup_open_max.  (Violated: slots that were
\* opened but never searched are not on the LRU chain, so nothing is closed.)
C1_FilecountWithinMax == open_filecount <= lookup_open_max

\* C2: two search_open calls with the same (driver, filename) and no tidy in
\* between return the same slot, also when the backend had to be reopened.
C2_SameHandle ==
  \A p \in returned, q \in returned :
    (p[1] = q[1] /\ p[2] = q[2]) => p[3] = q[3]

\* a search_open that reopened the backend of a slot it had returned before
C2_Witness ==
  /\ lastop.op = "open" /\ lastop.ret # NULL
  /\ HookCalls(lastop.hooks, "open") # {}
  /\ search_tree[lastop.ret].opens >= 2
  /\ <<lastop.type, lastop.filename, lastop.ret>> \in returned

C5_EvictsLRUTail ==
  [][(/\ OpenStep
      /\ MustOpen(lastop'.type, lastop'.filename)
      /\ lookup_list[lastop'.type].type = "absfile"
      /\ open_filecount >= lookup_open_max)
     => /\ open_bot # NULL
        /\ search_tree[open_bot].handle # NULL
        /\ Len(lastop'.hooks) >= 2
        /\ lastop'.hooks[1] = Hook("close", search_tree[open_bot].search_type,
                                   search_tree[open_bot].handle)
        /\ lastop'.hooks[2].hook = "open"
        /\ open_bot \in DOMAIN search_tree'
        /\ search_tree'[open_bot].name = search_tree[open_bot].name
        /\ search_tree'[open_bot].handle = NULL
        /\ open_filecount' = open_filecount - 1 + (IF lastop'.ret # NULL THEN 1 ELSE 0)
    ]_vars

\* C6: a handle stays usable until tidy: search_find on a slot whose backend
\* was closed by eviction reopens it before the find hook is invoked, so the
\* find hook gets a live backend handle and the slot is open afterwards.
\* (Violated: search_find never reopens.)
C6_FindReopens ==
  lastop.op = "find" =>
    /\ \A i \in HookCalls(lastop.hooks, "find") : lastop.hooks[i].h # NULL
    /\ search_tree[lastop.h].handle # NULL

\* C7: search_open, evicting and re-opening included, leaves the item cache of
\* every slot as it was; and a search_find of a key whose entry was installed
\* under an earlier backend handle of the slot (not expired, same options) is
\* answered from the cache, with no find-hook call.
C7_CacheSurvivesReopen ==
  [][/\ OpenStep =>
          \A t \in DOMAIN search_tree :
            /\ t \in DOMAIN search_tree'
            /\ search_tree'[t].name = search_tree[t].name
            /\ search_tree'[t].item_cache = search_tree[t].item_cache
     /\ FindStepOne =>
          LET a == lastop'.attempts[1]
              c == search_tree[lastop'.h]
          IN (/\ a.key \in DOMAIN c.item_cache
              /\ c.item_cache[a.key].h # c.handle
              /\ c.item_cache[a.key].ttl = UINT_MAX
              /\ c.item_cache[a.key].opts = a.opts
              /\ a.cache_rd)
             => /\ ~a.called
                /\ a.data = c.item_cache[a.key].data
                /\ HookCalls(lastop'.hooks, "find") = {}
    ]_vars

\* a find answered from an entry that was cached before the slot's backend was
\* evicted and reopened
C7_Witness ==
  /\ lastop.op = "find"
  /\ Len(lastop.attempts) = 1
  /\ ~lastop.attempts[1].called
  /\ ~lastop.yield.null
  /\ LET c == search_tree[lastop.h] IN
       /\ c.opens >= 2
       /\ c.handle # NULL
       /\ lastop.attempts[1].key \in DOMAIN c.item_cache
       /\ c.item_cache[lastop.attempts[1].key].h \notin {NULL, c.handle}
       /\ closes[c.item_cache[lastop.attempts[1].key].h].by = <<"evict">>

\* The options an entry was stored with equal the options of a lookup: both
\* null, or both non-null and the same string.
SameOpts(o1, o2) == (o1.null /\ o2.null) \/ (~o1.null /\ ~o2.null /\ o1.list = o2.list)

\* C4: for a non-empty key the lookup core answers from the item cache, with no
\* find-hook call, iff the handle has an entry for that key whose expiry is 0 or
\* later than now and whose options equal the current ones, and reading the
\* cache is permitted; otherwise the find hook is called exactly once.
C4_HitIffValidEntry ==
  [][FindStepOne =>
       LET a == lastop'.attempts[1]
           c == search_tree[lastop'.h]
           valid == /\ a.key \in DOMAIN c.item_cache
                    /\ c.item_cache[a.key].expiry = 0 \/ c.item_cache[a.key].expiry > now
                    /\ SameOpts(c.item_cache[a.key].opts, a.opts)
                    /\ a.cache_rd
       IN a.key # <<>> =>
            /\ valid => /\ ~a.called
                        /\ HookCalls(lastop'.hooks, "find") = {}
                        /\ a.data = c.item_cache[a.key].data
            /\ ~valid => /\ a.called
                         /\ Cardinality(HookCalls(lastop'.hooks, "find")) = 1
    ]_vars

\* a find with a driver option at a time after 0, answered from an entry that
\* has an expiry time
C4_Witness ==
  /\ lastop.op = "find" /\ Len(lastop.attempts) = 1
  /\ ~lastop.attempts[1].called
  /\ ~lastop.attempts[1].opts.null
  /\ ~lastop.yield.null
  /\ now > 0
  /\ search_tree[lastop.h].item_cache[lastop.attempts[1].key].expiry > now

\* C8: an entry installed at time T with a TTL t, 0 < t < MAX, answers finds of
\* its key with the same options at every time before T+t, with no find-hook
\* call, and makes the find hook be called at every time >= T+t; an entry
\* installed with the TTL left at MAX answers them at every time.
C8_TTL ==
  [][FindStepOne =>
       LET a == lastop'.attempts[1]
           c == search_tree[lastop'.h]
       IN (/\ a.key \in DOMAIN c.item_cache
           /\ SameOpts(c.item_cache[a.key].opts, a.opts)
           /\ a.cache_rd)
          => LET e == c.item_cache[a.key] IN
             /\ (e.ttl # UINT_MAX /\ now < e.at + e.ttl)
                  => ~a.called /\ a.data = e.data
             /\ (e.ttl # UINT_MAX /\ now >= e.at + e.ttl) => a.called
             /\ e.ttl = UINT_MAX => ~a.called /\ a.data = e.data
    ]_vars

\* a find at a time >= T+t that called the find hook (which deferred, so the
\* entry installed at T with TTL t is still there)
C8_Witness ==
  /\ lastop.op = "find" /\ Len(lastop.attempts) = 1
  /\ lastop.attempts[1].called
  /\ lastop.attempts[1].rc = "DEFER"
  /\ lastop.attempts[1].cache_rd
  /\ LET c == search_tree[lastop.h]
         k == lastop.attempts[1].key
     IN /\ k \in DOMAIN c.item_cache
        /\ c.item_cache[k].ttl = 1
        /\ c.item_cache[k].at + c.item_cache[k].ttl = now
        /\ SameOpts(c.item_cache[k].opts, lastop.attempts[1].opts)

\* C9: when the find hook answers OK or FAIL with the TTL set to zero, the whole
\* item cache of that handle is dropped and the result is not cached; the
\* backend handle stays open, the slot stays, and the item caches of all other
\* handles are unchanged.  With nothing cached, any find calls the find hook.
C9_ZeroTTLDropsCache ==
  [][FindStepOne =>
       LET a == lastop'.attempts[1]
           h == lastop'.h
       IN /\ (a.called /\ a.rc \in {"OK", "FAIL"} /\ a.do_cache = 0)
             => /\ DOMAIN search_tree' = DOMAIN search_tree
                /\ search_tree'[h].item_cache = <<>>
                /\ search_tree'[h].handle = search_tree[h].handle
                /\ search_tree'[h].name = search_tree[h].name
                /\ \A t \in DOMAIN search_tree \ {h} :
                     search_tree'[t].item_cache = search_tree[t].item_cache
          /\ (search_tree[h].item_cache = <<>> /\ a.key # <<>>) => a.called
    ]_vars

\* a zero-TTL answer on a handle that had both keys cached, while the other
\* handle has a cached entry
C9_Witness ==
  /\ lastop.op = "find" /\ Len(lastop.attempts) = 1
  /\ lastop.attempts[1].called
  /\ lastop.attempts[1].do_cache = 0
  /\ lastop.attempts[1].cached = CacheKeys
  /\ search_tree[lastop.h].item_cache = <<>>
  /\ search_tree[lastop.h].handle # NULL
  /\ \E t \in DOMAIN search_tree : t # lastop.h /\ search_tree[t].item_cache # <<>>

\* The keys search_find looks up when every lookup comes back empty-handed:
\* the key verbatim; with partial matching the affix before the key, then the
\* affix before what follows each dot of the key in turn, as long as at least
\* partial components stay, and with partial = 0 the affix alone, less a final
\* dot; the "*@" default; the "*" default.
DotsAt(key) == {i \in DOMAIN key : key[i] = "."}

RECURSIVE TrimmedKeys(_, _, _, _)
TrimmedKeys(key, partial, affix, i) ==
  LET ds == DotsAt(key) IN
  IF Cardinality({d \in ds : d >= i}) < partial \/ {d \in ds : d >= i} = {}
  THEN <<>>
  ELSE LET d == CHOOSE x \in ds : x >= i /\ \A y \in ds : y >= i => x <= y
       IN <<affix \o SubSeq(key, d + 1, Len(key))>> \o
          TrimmedKeys(key, partial, affix, d + 1)

AffixAlone(partial, affix) ==
  IF partial = 0 /\ affix # <<>>
  THEN <<IF Len(affix) > 1 /\ affix[Len(affix)] = "."
         THEN SubSeq(affix, 1, Len(affix) - 1) ELSE affix>>
  ELSE <<>>

ExpectedKeys(key, partial, affix, starflags) ==
  <<[kind |-> "verbatim", key |-> key]>>
  \o (IF partial >= 0 /\ affix # <<>>
      THEN <<[kind |-> "affix", key |-> affix \o key]>> ELSE <<>>)
  \o (IF partial >= 0
      THEN LET ks == TrimmedKeys(key, partial, affix, 1) \o AffixAlone(partial, affix)
           IN [i \in 1..Len(ks) |-> [kind |-> "trim", key |-> ks[i]]]
      ELSE <<>>)
  \o (IF "STARAT" \in starflags /\ \E i \in 2..Len(key) : key[i] = "@"
      THEN LET at == CHOOSE i \in 2..Len(key) :
                       key[i] = "@" /\ \A j \in (i+1)..Len(key) : key[j] # "@"
           IN <<[kind |-> "starat", key |-> <<"*">> \o SubSeq(key, at, Len(key))]>>
      ELSE <<>>)
  \o (IF starflags \cap {"STAR", "STARAT"} # {}
      THEN <<[kind |-> "star", key |-> <<"*">>]>> ELSE <<>>)

\* C10: the lookups of a search_find call are, in this order, the key verbatim,
\* affix+key, the left-trimmed keys from longest to shortest, "*@..." and "*",
\* as far as the settings enable them; a lookup is made only if all lookups
\* before it gave no payload and did not defer; the call goes on to the next
\* lookup unless one gave a payload or deferred; and after a lookup deferred
\* search_find returns null with the defer flag set.
C10_AttemptOrder ==
  /\ fs.active =>
       LET exp == ExpectedKeys(fs.attempts[1].key, fs.partial, fs.affix, fs.starflags)
           n   == Len(fs.attempts)
       IN /\ n < Len(exp)
          /\ \A i \in 1..n :
               /\ fs.attempts[i].kind = exp[i].kind /\ fs.attempts[i].key = exp[i].key
               /\ fs.attempts[i].data.null /\ ~fs.attempts[i].defer
          /\ fs.next.kind = exp[n + 1].kind /\ fs.next.key = exp[n + 1].key
  /\ (lastop.op = "find" /\ ~fs.active) =>
       LET att == lastop.attempts
           exp == ExpectedKeys(att[1].key, lastop.args.partial, lastop.args.affix,
                               lastop.args.starflags)
           n   == Len(att)
       IN /\ n <= Len(exp)
          /\ \A i \in 1..n : att[i].kind = exp[i].kind /\ att[i].key = exp[i].key
          /\ \A i \in 1..(n - 1) : att[i].data.null /\ ~att[i].defer
          /\ n < Len(exp) => ~att[n].data.null \/ att[n].defer
          /\ att[n].defer => lastop.yield.null /\ search_find_defer
          /\ ~att[n].defer => lastop.yield = att[n].data /\ ~search_find_defer

\* a call that went through the key verbatim, a left-trimmed key, "*@..." and
\* "*", with partial matching of an address on a file that has neither
C10_Witness ==
  /\ lastop.op = "find" /\ ~fs.active
  /\ Len(lastop.attempts) = 4
  /\ lastop.attempts[2].kind = "trim"
  /\ lastop.attempts[3].kind = "starat"
  /\ lastop.attempts[4].kind = "star"
  /\ ~lastop.yield.null

\* The lookups made so far by the search_find call in progress, or all the
\* lookups of the last call, and the arguments of that call.
Lookups == IF fs.active THEN fs.attempts ELSE lastop.attempts
OrigKey == Lookups[1].key
ArgPartial == IF fs.active THEN fs.partial ELSE lastop.args.partial
ArgAffix == IF fs.active THEN fs.affix ELSE lastop.args.affix
InFind == fs.active \/ lastop.op = "find"

\* dot-separated components of a key
Components(key) == IF key = <<>> THEN 0 ELSE Cardinality(DotsAt(key)) + 1

\* the suffixes of key that start right after a '.'
SuffixesAfterDot(key) == {SubSeq(key, d + 1, Len(key)) : d \in DotsAt(key)}

IsAffixAlone(a) ==
  /\ a.kind = "trim"
  /\ AffixAlone(ArgPartial, ArgAffix) = <<a.key>>
  /\ \A x \in SuffixesAfterDot(OrigKey) : a.key # ArgAffix \o x

\* C11: every left-trimmed key looked up, the final affix-alone lookup apart, is
\* the affix followed by a suffix of the original key that starts right after
\* a '.' and has at least partial components; and no lookup of partial
\* matching has fewer than partial non-wild components.  (Violated: affix+key
\* is looked up however few components the key has.)
C11_PartialComponents ==
  InFind =>
    \A i \in DOMAIN Lookups :
      LET a == Lookups[i] IN
      /\ (a.kind = "trim" /\ ~IsAffixAlone(a)) =>
           \E x \in SuffixesAfterDot(OrigKey) :
             a.key = ArgAffix \o x /\ Components(x) >= ArgPartial
      /\ a.kind = "affix" => Components(OrigKey) >= ArgPartial

\* the part of C11 about the left-trimmed keys alone
C11_TrimmedKeys ==
  InFind =>
    \A i \in DOMAIN Lookups :
      LET a == Lookups[i] IN
      (a.kind = "trim" /\ ~IsAffixAlone(a)) =>
         \E x \in SuffixesAfterDot(OrigKey) :
           a.key = ArgAffix \o x /\ Components(x) >= ArgPartial

\* The last search_find call has returned, and its last lookup was of the
\* given kind.
LastLookup == lastop.attempts[Len(lastop.attempts)]
ReturnedAfter(kind) ==
  /\ lastop.op = "find" /\ ~fs.active
  /\ lastop.attempts # <<>>
  /\ LastLookup.kind = kind

\* the characters an expansion variable stands for
Chars(v) == SubSeq(v.s, 1, v.len)

\* the part of a left-trimmed key that follows the affix
FixedPart(a) ==
  IF IsAffixAlone(a) THEN <<>>
  ELSE SubSeq(a.key, Len(lastop.args.affix) + 1, Len(a.key))

\* the part of the original key that was trimmed off to get a left-trimmed key
WildPart(a) ==
  IF IsAffixAlone(a) THEN OrigKey
  ELSE SubSeq(OrigKey, 1, Len(OrigKey) - Len(FixedPart(a)) - 1)

TrimmedHit ==
  /\ ReturnedAfter("trim")
  /\ ~LastLookup.data.null
  /\ lastop.expand # <<>>

\* C12: after a hit on a left-trimmed key the expansion variables are the wild
\* part, the prefix of the original key that was trimmed off, and the fixed
\* part, a de-tainted copy of the suffix that followed the affix in the
\* matching key, with wild part + '.' + fixed part = original key; also after
\* a hit on the final affix-alone lookup.  (Violated by the affix-alone hit.)
C12_TrimmedHitVars ==
  TrimmedHit =>
    /\ Len(lastop.expand) = 2
    /\ Chars(lastop.expand[1]) = WildPart(LastLookup)
    /\ Chars(lastop.expand[2]) = FixedPart(LastLookup)
    /\ ~lastop.expand[2].tainted
    /\ Chars(lastop.expand[1]) \o <<".">> \o Chars(lastop.expand[2]) = OrigKey

\* C12 without the affix-alone hit
C12_RegularTrimmedHitVars ==
  (TrimmedHit /\ ~IsAffixAlone(LastLookup)) =>
    /\ Len(lastop.expand) = 2
    /\ Chars(lastop.expand[1]) = WildPart(LastLookup)
    /\ Chars(lastop.expand[2]) = FixedPart(LastLookup)
    /\ ~lastop.expand[2].tainted
    /\ Chars(lastop.expand[1]) \o <<".">> \o Chars(lastop.expand[2]) = OrigKey

\* the position of the rightmost '@' of a key that has one
RightmostAt(key) == CHOOSE i \in DOMAIN key : key[i] = "@" /\ \A j \in DOMAIN key : key[j] = "@" => j <= i

StarAtHit ==
  /\ ReturnedAfter("starat")
  /\ ~LastLookup.data.null
  /\ lastop.expand # <<>>

\* C13: after a hit on the "*@" default the expansion variables are the
\* original key with a length that reaches up to and including the rightmost
\* '@', and the original key with length 0.  (Violated: the length stops
\* before the '@'.)
C13_StarAtVarsIncl ==
  StarAtHit =>
    /\ Len(lastop.expand) = 2
    /\ lastop.expand[1].s = OrigKey /\ lastop.expand[1].len = RightmostAt(OrigKey)
    /\ lastop.expand[2].s = OrigKey /\ lastop.expand[2].len = 0

\* C13 (amended): after a hit on the "*@" default the expansion variables are
\* the original key with a length that reaches up to but not including the
\* rightmost '@' (the local part), and the original key with length 0.
C13_StarAtVars ==
  StarAtHit =>
    /\ Len(lastop.expand) = 2
    /\ lastop.expand[1].s = OrigKey /\ lastop.expand[1].len = RightmostAt(OrigKey) - 1
    /\ lastop.expand[2].s = OrigKey /\ lastop.expand[2].len = 0

C13_Witness ==
  /\ StarAtHit
  /\ OrigKey = <<"u", "@", "d", ".", "e">>
  /\ LastLookup.key = <<"*", "@", "d", ".", "e">>
  /\ Chars(lastop.expand[1]) = <<"u">>

\* C16: a search_find call with an empty key returns NULL at once: no driver
\* hook is called, whatever the partial, affix and star settings, and the
\* defer flag is not set.  (Violated: the affix and the "*" default are looked
\* up for an empty key.)
C16_EmptyKey ==
  (lastop.op = "find" /\ ~fs.active /\ lastop.attempts # <<>> /\ OrigKey = <<>>) =>
    /\ lastop.yield.null
    /\ lastop.hooks = <<>>
    /\ Len(lastop.attempts) = 1
    /\ ~search_find_defer

\* the lookups of the last call that were of the given kind
LookupsOf(kind) == {i \in DOMAIN lastop.attempts : lastop.attempts[i].kind = kind}

VerbatimMissed ==
  /\ lastop.op = "find" /\ ~fs.active
  /\ lastop.attempts # <<>>
  /\ lastop.attempts[1].data.null /\ ~lastop.attempts[1].defer
  /\ lastop.args.partial >= 0

\* C17: for a key with exactly partial dots whose verbatim lookup misses,
\* partial matching makes exactly one wildcard lookup, of the affix followed
\* by the whole key, and no left-trimmed lookup.  (Violated: with that many
\* dots the key has one component more than the minimum and is trimmed once.)
C17_ExactDots ==
  (VerbatimMissed /\ Cardinality(DotsAt(OrigKey)) = lastop.args.partial) =>
    /\ LookupsOf("trim") = {}
    /\ LookupsOf("affix") = {2}
    /\ lastop.attempts[2].key = lastop.args.affix \o OrigKey

\* C17 (amended): for a key with exactly partial components (partial - 1 dots)
\* whose verbatim lookup misses, partial matching makes no left-trimmed lookup;
\* its one wildcard lookup is of the affix followed by the whole key, made if
\* the affix is not empty.
C17_ExactComponents ==
  (VerbatimMissed /\ Cardinality(DotsAt(OrigKey)) + 1 = lastop.args.partial) =>
    /\ LookupsOf("trim") = {}
    /\ IF lastop.args.affix = <<>> THEN LookupsOf("affix") = {}
       ELSE /\ LookupsOf("affix") = {2}
            /\ lastop.attempts[2].key = lastop.args.affix \o OrigKey

C17_Witness ==
  /\ VerbatimMissed
  /\ OrigKey = <<"a", ".", "b">>
  /\ lastop.args.partial = 2
  /\ lastop.args.affix = <<"*", ".">>
  /\ Len(lastop.attempts) = 2
  /\ lastop.attempts[2].key = <<"*", ".", "a", ".", "b">>
  /\ lastop.yield.null

\* C14: if a search_find call with ret=key returned a key, then the call that
\* follows it on the same handle for that key, with the same partial, affix
\* and star settings and without ret=key, returns a payload (the driver's data
\* being what it was).
C14_RetKeyRoundTrip ==
  [][ ( /\ lastop.op = "find" /\ lastop.args.ret_key /\ ~lastop.yield.null
        /\ lastop'.op = "find" /\ ~lastop'.args.ret_key
        /\ lastop'.h = lastop.h
        /\ lastop'.attempts[1].key = lastop.yield.s
        /\ lastop'.args.partial = lastop.args.partial
        /\ lastop'.args.affix = lastop.args.affix
        /\ lastop'.args.starflags = lastop.args.starflags )
      => ~lastop'.yield.null ]_vars

\* the second call has returned the payload of "*.c", found for "b.c" by
\* trimming, as the first one did
C14_Witness ==
  /\ ReturnedAfter("trim")
  /\ ~lastop.args.ret_key
  /\ OrigKey = <<"b", ".", "c">>
  /\ LastLookup.key = <<"*", ".", "c">>
  /\ lastop.yield = Payload

\* the options have none of the elements search_find handles itself
NoGlobal(opts) ==
  opts.null \/ \A i \in DOMAIN opts.list : opts.list[i] \notin {"ret=key", "cache=no_rd"}

\* the step is a read-enabled lookup that follows a cache=no_rd lookup of the
\* same key with the same remaining options on the same handle
ReadAfterNoRd ==
  /\ lastop.op = "find" /\ lastop.h = lastop'.h
  /\ ~lastop.attempts[1].cache_rd /\ lastop'.attempts[1].cache_rd
  /\ lastop.attempts[1].key = lastop'.attempts[1].key
  /\ SameOpts(lastop.attempts[1].opts, lastop'.attempts[1].opts)

\* C15: a search_find with cache=no_rd never answers from the item cache but
\* still installs or replaces the entry, under options without ret=key and
\* cache=no_rd; a following read-enabled search_find of the same key with the
\* same remaining options returns the payload written last with no find-hook
\* call.  (Violated: nothing is installed when the find hook defers or sets a
\* zero TTL, and the entry expires.)
C15_NoRdAlwaysInstalls ==
  [][FindStepOne =>
       LET a == lastop'.attempts[1]
           c == search_tree'[lastop'.h]
       IN a.key # <<>> =>
            /\ ~a.cache_rd =>
                 /\ a.called
                 /\ a.key \in DOMAIN c.item_cache
                 /\ c.item_cache[a.key].opts = a.opts
                 /\ c.item_cache[a.key].data = a.data
                 /\ NoGlobal(c.item_cache[a.key].opts)
            /\ ReadAfterNoRd => ~a.called /\ a.data = lastop.attempts[1].data
    ]_vars

\* C15 (amended): a search_find with cache=no_rd never answers from the item
\* cache; when the find hook answers OK or FAIL and leaves a non-zero TTL it
\* installs or replaces the entry, under options without ret=key and
\* cache=no_rd; a following read-enabled search_find of the same key with the
\* same remaining options, made before that entry expires, returns the payload
\* written last with no find-hook call.
C15_NoRdWritesThrough ==
  [][FindStepOne =>
       LET a == lastop'.attempts[1]
           p == lastop.attempts[1]
           c == search_tree'[lastop'.h]
       IN a.key # <<>> =>
            /\ ~a.cache_rd =>
                 /\ a.called
                 /\ (a.rc \in {"OK", "FAIL"} /\ a.do_cache # 0) =>
                      /\ a.key \in DOMAIN c.item_cache
                      /\ c.item_cache[a.key].opts = a.opts
                      /\ c.item_cache[a.key].data = a.data
                      /\ NoGlobal(c.item_cache[a.key].opts)
            /\ ( /\ ReadAfterNoRd
                 /\ p.rc \in {"OK", "FAIL"} /\ p.do_cache # 0
                 /\ \/ p.do_cache = UINT_MAX
                    \/ now < search_tree[lastop.h].item_cache[a.key].at + p.do_cache )
                 => ~a.called /\ a.data = p.data
    ]_vars

\* a lookup with ret=key, a driver option and cache=no_rd that called the find
\* hook although the key had an entry, and replaced the entry
C15_Witness ==
  /\ lastop.op = "find" /\ Len(lastop.attempts) = 1
  /\ ~lastop.attempts[1].cache_rd /\ lastop.args.ret_key
  /\ lastop.attempts[1].called
  /\ lastop.attempts[1].key \in lastop.attempts[1].cached
  /\ lastop.attempts[1].opts = Opts(<<"x">>)
  /\ now > 0
  /\ lastop.attempts[1].key \in DOMAIN search_tree[lastop.h].item_cache
  /\ LET e == search_tree[lastop.h].item_cache[lastop.attempts[1].key]
     IN e.at = now /\ e.opts = Opts(<<"x">>) /\ e.data = Payload

\* the registry entries whose name is the first len characters of name
ExactTypes(name, len) ==
  {i \in 0..(lookup_list_count - 1) : lookup_list[i].name = SubSeq(name, 1, len)}

\* C18: search_findtype returns an index i >= 0 iff the name of registry entry
\* i equals the given name slice (same length, same bytes) and the entry has a
\* find hook; a slice that is a proper prefix of a stored name, or has a stored
\* name as a proper prefix, is never resolved to that entry; an exact match
\* without a find hook fails with the "not available" message and every other
\* failure with "unknown lookup type".
C18_FindtypeExact ==
  lastop.op = "findtype" =>
    LET exact == ExactTypes(lastop.args.name, lastop.args.len)
    IN /\ \A i \in 0..(lookup_list_count - 1) :
            lastop.ret = i <=> (i \in exact /\ lookup_list[i].find)
       /\ lastop.ret >= 0 \/ lastop.ret = -1
       /\ lastop.ret = -1 =>
            search_error_message =
              IF exact # {} THEN "lookup type is not available"
              ELSE "unknown lookup type"

\* "nis" at the start of "nis*", which is also the start of "nisplus", is found
\* as nis
C18_Witness ==
  /\ lastop.op = "findtype"
  /\ lastop.args.name = <<"n", "i", "s", "*">> /\ lastop.args.len = 3
  /\ lastop.ret = 2

\* C19: after search_tidyup the cache of open lookups is empty, open_top and
\* open_bot are NULL, open_filecount is 0, the tidy hook of every driver that
\* has one has been called once, and the item caches are gone with the slots;
\* so the next search_open calls the driver's open hook, and the search_find
\* that follows on the slot it returns calls the driver's find hook.
C19_TidyResets ==
  [][ /\ (lastop'.op = "tidy" /\ lastop' # lastop) =>
           /\ search_tree' = <<>>
           /\ open_top' = NULL /\ open_bot' = NULL
           /\ open_filecount' = 0
           /\ \A i \in 0..(lookup_list_count - 1) :
                Cardinality({j \in DOMAIN lastop'.hooks :
                               lastop'.hooks[j] = Hook("tidy", i, NULL)})
                  = IF lookup_list[i].tidy THEN 1 ELSE 0
           /\ HookCalls(lastop'.hooks, "tidy") = DOMAIN lastop'.hooks
      /\ (lastop.op = "tidy" /\ OpenStep /\ ~is_tainted(lastop'.filename)) =>
           HookCalls(lastop'.hooks, "open") # {}
      /\ ( /\ FindStepOne /\ lastop.op = "open" /\ lastop.ret = lastop'.h
           /\ HookCalls(lastop.hooks, "open") # {}
           /\ search_tree[lastop.ret].opens = 1
           /\ lastop'.attempts[1].key # <<>> ) =>
           /\ lastop'.attempts[1].called
           /\ HookCalls(lastop'.hooks, "find") # {}
    ]_vars

\* a search_tidyup that closed an open file and emptied a cache of two slots
C19_Witness ==
  /\ lastop.op = "tidy"
  /\ search_tree = <<>> /\ open_filecount = 0
  /\ Cardinality(DOMAIN lastop.closes) >= 2
  /\ \E h \in DOMAIN lastop.closes : lastop.closes[h].by = <<"tidy">>
  /\ lastop.hooks = <<Hook("tidy", nisplus, NULL)>>

\* C20: search_open with a tainted filename returns NULL, calls no driver hook,
\* and leaves the cache of open lookups, every slot, the LRU chain and
\* open_filecount as they were.
C20_TaintedOpenRejected ==
  [][ (OpenStep /\ lastop' # lastop /\ lastop'.filename.tainted) =>
        /\ lastop'.ret = NULL
        /\ lastop'.hooks = <<>>
        /\ UNCHANGED <<search_tree, open_top, open_bot, open_filecount>>
    ]_vars

\* a tainted name was refused when the file of that name was open and the
\* count of open files stood at the limit
C20_Witness ==
  /\ lastop.op = "open" /\ lastop.filename.tainted
  /\ lastop.ret = NULL
  /\ open_filecount >= lookup_open_max
  /\ \E t \in DOMAIN search_tree :
       search_tree[t].handle # NULL /\ search_tree[t].name = keybuffer(lsearch, File(1))

\* a search_open step whose open hook failed, or whose check hook failed
OpenFailed ==
  /\ OpenStep /\ lastop'.ret = NULL
  /\ HookCalls(lastop'.hooks, "open") # {}

\* C21: if the open hook fails, or it succeeds and the check hook fails,
\* search_open returns NULL, no slot is inserted or revived, open_filecount is
\* not incremented, and after a failed check the backend handle just opened
\* is closed exactly once.
C21_FailedOpen ==
  [][ /\ (OpenStep /\ HookCalls(lastop'.hooks, "open") # {}
            /\ \E i \in DOMAIN lastop'.hooks :
                 lastop'.hooks[i].hook = "open" /\ lastop'.hooks[i].h = NULL)
           => lastop'.ret = NULL
      /\ OpenFailed =>
           /\ DOMAIN search_tree' = DOMAIN search_tree
           /\ \A t \in DOMAIN search_tree :
                search_tree'[t].handle \in {NULL, search_tree[t].handle}
           /\ open_filecount' <= open_filecount
           /\ \A i \in HookCalls(lastop'.hooks, "open") :
                LET h == lastop'.hooks[i].h IN
                h # NULL =>
                  /\ HookCalls(lastop'.hooks, "check") # {}
                  /\ Cardinality({j \in DOMAIN lastop'.hooks :
                                    lastop'.hooks[j] = Hook("close", lastop'.type, h)}) = 1
                  /\ closes'[h].by = <<"check">>
                  /\ \A t \in DOMAIN search_tree' : search_tree'[t].handle # h
    ]_vars

\* the check hook failed after the least recently used file had been closed
\* to make room
C21_Witness ==
  /\ lastop.op = "open" /\ lastop.ret = NULL
  /\ Len(lastop.hooks) = 4
  /\ lastop.hooks[1].hook = "close" /\ lastop.hooks[2].hook = "open"
  /\ lastop.hooks[3].hook = "check" /\ lastop.hooks[4].hook = "close"
  /\ lastop.hooks[4].h = lastop.hooks[2].h /\ lastop.hooks[1].h # lastop.hooks[2].h
  /\ open_filecount = lookup_open_max - 1

\* the messages a failing search_open may leave for its own failure
OpenMessages == {"open failed", "check failed", "tainted filename"}

\* C22: every entry point that fails sets the error message and the defer flag
\* for that failure: after a search_open that returned NULL the message is that
\* of this failure and the defer flag is clear, and after a search_find that
\* returned NULL both are what its last lookup made them.  (Violated:
\* search_open sets the message only through the driver's hooks and never
\* touches the defer flag.)
C22_FailureSetsBoth ==
  [][ /\ (OpenStep /\ lastop'.ret = NULL) =>
           /\ search_error_message' \in OpenMessages
           /\ ~search_find_defer'
      /\ (FindStepOne /\ lastop'.yield.null) =>
           /\ search_error_message' \in {"", "deferred"}
           /\ search_find_defer' = lastop'.attempts[1].defer
    ]_vars

\* the step repeats the lookup of the last call: same handle, key and options,
\* both reading the cache, and the last call was answered FAIL by the find
\* hook with the TTL left alone
RepeatsUntouchedFail ==
  /\ FindStepOne /\ lastop.op = "find" /\ lastop.h = lastop'.h
  /\ lastop.attempts[1].key = lastop'.attempts[1].key
  /\ SameOpts(lastop.attempts[1].opts, lastop'.attempts[1].opts)
  /\ lastop.attempts[1].cache_rd /\ lastop'.attempts[1].cache_rd
  /\ lastop.attempts[1].called
  /\ lastop.attempts[1].rc = "FAIL" /\ lastop.attempts[1].do_cache = UINT_MAX

\* the find hook was called in this step and answered FAIL
FailStep == FindStepOne /\ lastop'.attempts[1].called /\ lastop'.attempts[1].rc = "FAIL"

\* C23: no item-cache entry is created for a lookup the find hook answered
\* FAIL unless the driver set the TTL itself; with the TTL left alone the
\* failure is not cached, and repeating the find calls the driver again.
\* (Violated: the TTL starts as "for ever" and every answer but DEFER is cached
\* unless the TTL is zero.)
C23_FailNotCached ==
  [][ /\ (FailStep /\ lastop'.attempts[1].do_cache = UINT_MAX) =>
           LET c == search_tree'[lastop'.h].item_cache
               k == lastop'.attempts[1].key
           IN ~(k \in DOMAIN c /\ c[k].data.null /\ c[k].at = now /\ c[k].ttl = UINT_MAX)
      /\ RepeatsUntouchedFail => lastop'.attempts[1].called
    ]_vars

\* C23 (amended): a lookup the find hook answered FAIL is cached, as an entry
\* with no payload, whenever the TTL is not zero, whether the driver set it or
\* left it alone; with the TTL left alone the entry never expires and
\* repeating the find returns NULL from the cache with no find-hook call; a
\* TTL of zero drops the item cache.
C23_FailCached ==
  [][ /\ FailStep =>
           LET c == search_tree'[lastop'.h].item_cache
               a == lastop'.attempts[1]
           IN IF a.do_cache = 0 THEN c = <<>>
              ELSE /\ a.key \in DOMAIN c
                   /\ c[a.key].data.null
                   /\ c[a.key].opts = a.opts
                   /\ c[a.key].expiry = IF a.do_cache = UINT_MAX THEN 0
                                        ELSE now + a.do_cache
      /\ RepeatsUntouchedFail =>
           /\ ~lastop'.attempts[1].called
           /\ lastop'.attempts[1].data.null
           /\ lastop'.yield.null
    ]_vars

\* a find at a later time answered from the entry of a failure
C23_Witness ==
  /\ lastop.op = "find" /\ Len(lastop.attempts) = 1
  /\ ~lastop.attempts[1].called /\ lastop.attempts[1].cache_rd
  /\ lastop.yield.null
  /\ now > 0
  /\ lastop.attempts[1].key \in DOMAIN search_tree[lastop.h].item_cache
  /\ LET e == search_tree[lastop.h].item_cache[lastop.attempts[1].key]
     IN e.data.null /\ e.ttl = UINT_MAX /\ e.at = 0

\* The slots met when walking 'down' from slot t, at most n of them.
RECURSIVE Walk(_, _, _)
Walk(tree, t, n) ==
  IF t = NULL \/ n = 0 THEN <<>>
  ELSE <<t>> \o Walk(tree, tree[t].down, n - 1)

\* the LRU chain, from open_top down (cut off once it is longer than the
\* number of slots, which a chain with a loop is)
Chain == Walk(search_tree, open_top, Len(search_tree) + 1)
OnChain == {Chain[i] : i \in DOMAIN Chain}

\* C24: in every reachable state the number of slots on the LRU chain equals
\* open_filecount.  (Violated: search_open counts the file but does not put
\* the slot on the chain; the first search_find on it does.)
C24_ChainLengthIsCount == Cardinality(OnChain) = open_filecount

\* C28: the LRU chain is a well-formed doubly-linked list: open_top is NULL iff
\* open_bot is, open_top has no 'up' and open_bot no 'down', 'up' and 'down'
\* are inverses of each other, and walking 'down' from open_top visits each
\* slot of the chain once and ends at open_bot.
C28_ChainWellFormed ==
  /\ open_top = NULL <=> open_bot = NULL
  /\ open_top # NULL =>
       /\ search_tree[open_top].up = NULL
       /\ search_tree[open_bot].down = NULL
       /\ Chain[Len(Chain)] = open_bot
  /\ Len(Chain) <= Len(search_tree)
  /\ \A i \in DOMAIN Chain, j \in DOMAIN Chain : Chain[i] = Chain[j] => i = j
  /\ \A t \in OnChain :
       /\ search_tree[t].down # NULL => search_tree[search_tree[t].down].up = t
       /\ search_tree[t].up # NULL => search_tree[search_tree[t].up].down = t

\* C29: no find hook and no close hook is ever invoked with a null backend
\* handle, and every slot on the LRU chain has a live backend handle.
\* (Violated: a find through a handle whose backend was evicted passes NULL to
\* the find hook and puts the closed slot back on the chain.)
C29_LiveHandles ==
  /\ \A i \in DOMAIN lastop.hooks :
       lastop.hooks[i].hook \in {"find", "close"} => lastop.hooks[i].h # NULL
  /\ \A t \in OnChain : search_tree[t].handle # NULL

\* the chain without the slot t
Without(chain, t) == SelectSeq(chain, LAMBDA x : x # t)
FileBacked(t) == lookup_list[search_tree[t].search_type].type = "absfile"

\* C26: after a search_find on a file-backed handle that handle is open_top
\* and the relative order of all other chain members is unchanged; a find on a
\* handle that is not file-backed leaves the chain unchanged.
\* (Violated: a find through a handle whose backend was evicted unlinks with
\* the stale up pointer of the evicted slot and cuts live slots off the chain.)
C26_FindPromotes ==
  [][(lastop'.op = "find" /\ ~fs.active) =>
       IF FileBacked(lastop'.h)
       THEN /\ open_top' = lastop'.h
            /\ Without(Chain', lastop'.h) = Without(Chain, lastop'.h)
       ELSE /\ Chain' = Chain
            /\ open_top' = open_top
            /\ open_bot' = open_bot
    ]_vars

\* the find hook was called in this step and answered DEFER
DeferStep == FindStepOne /\ lastop'.attempts[1].called /\ lastop'.attempts[1].rc = "DEFER"

C25_LongNamesRoute ==
  /\ \A r \in returned :
       search_tree[r[3]].name =
         <<r[1] + ZeroChar>> \o
           (IF Len(r[2].s) <= KeyFileMax THEN r[2].s ELSE SubSeq(r[2].s, 1, KeyFileMax))
  /\ \A p \in returned, q \in returned :
       /\ (p[3] = q[3] /\ p[1] = q[1] /\ search_tree[p[3]].opens = 1) => p[2] = q[2]
       /\ p[1] # q[1] => /\ p[3] # q[3]
                         /\ search_tree[p[3]].name # search_tree[q[3]].name

\* C30: search_find leaves the caller's key string byte for byte as it was,
\* on every path on which it returns: after partial matching, after the "*@"
\* lookup has overwritten a character of it, and when that lookup defers.
C30_KeyUnchanged ==
  (lastop.op = "find" /\ ~fs.active) => lastop.args.keystring = OrigKey
\* a search_find that returned because its "*@" lookup deferred
C30_Witness ==
  /\ lastop.op = "find" /\ ~fs.active
  /\ LastLookup.kind = "starat" /\ LastLookup.defer
  /\ lastop.yield.null
  /\ lastop.args.keystring = OrigKey

====
